---- MODULE Spec2Model ----
(***************************************************************************)
(* Fast Modbus tools: CRC16 framing, bus scan, register read/write, event  *)
(* configuration and event poll, modelled from the four scripts under      *)
(* src/scripts.  Bytes are integers 0..255, frames are sequences of bytes. *)
(***************************************************************************)
EXTENDS Integers, Sequences, FiniteSets, TLC

VARIABLES
    op,        \* the operation in progress
    pc,        \* position inside the operation
    args,      \* the arguments of the call
    tx,        \* every frame handed to serial_port.write, in order
    rx,        \* the local `response` of the operation (last bytes read by it)
    mrx,       \* request_device_model: its local `response`
    out,       \* what the caller derives from the result (parsed events, settings)
    heard,     \* the responses read by the scan loop, in arrival order
    devices,   \* scan_devices: the list `devices`
    result,    \* the value the call returns (or the local it is about to return)
    pending,   \* requests written whose answer was neither read nor timed out
    writes,    \* number of serial_port.write calls of the current call
    reads,     \* number of serial_port.read calls of the current call
    bus,       \* serial numbers of the devices still answering scan frames
    payload,   \* CRC laws: the byte sequence drawn as input
    frame,     \* CRC laws: the frame under test
    verdict    \* CRC laws: what check_crc said about `frame`

vars == <<op, pc, args, tx, rx, mrx, out, heard, devices, result, pending, writes,
          reads, bus, payload, frame, verdict>>

opVars  == <<op, pc, args, tx, rx, mrx, out, heard, devices, result, pending, writes,
            reads, bus>>
crcVars == <<payload, frame, verdict>>

(***************************************************************************)
(* Bounds of the model.                                                    *)
(***************************************************************************)
MaxPayloadLen == 2   \* longest byte sequence drawn for the CRC laws
MaxFill == 2         \* most idle-line fill bytes put in front of a response
MaxRounds == 3       \* most responses the bus gives to one scan loop
MaxDevices == 3      \* most devices on the bus

(***************************************************************************)
(* Integer and byte helpers (struct.pack / struct.unpack, bytes methods).  *)
(***************************************************************************)
RECURSIVE Xor(_, _)
Xor(a, b) ==
    IF a = 0 THEN b
    ELSE IF b = 0 THEN a
    ELSE (((a % 2) + (b % 2)) % 2) + (2 * Xor(a \div 2, b \div 2))

\* struct.pack('<H', v)
PackLE16(v) == << v % 256, (v \div 256) % 256 >>
\* struct.pack('>H', v)
PackBE16(v) == << (v \div 256) % 256, v % 256 >>
\* struct.pack('>I', v)
PackBE32(v) == << (v \div 16777216) % 256, (v \div 65536) % 256, (v \div 256) % 256, v % 256 >>
\* struct.unpack('<H', b)[0]
UnpackLE16(b) == b[1] + (256 * b[2])
\* struct.unpack('>H', b)[0]
UnpackBE16(b) == (256 * b[1]) + b[2]
\* struct.unpack('>I', b)[0]
UnpackBE32(b) == (16777216 * b[1]) + (65536 * b[2]) + (256 * b[3]) + b[4]

\* Python slice s[i:j] with 0-based i, j >= 0, clipped to the sequence
Slice(s, i, j) ==
    LET hi == IF j < Len(s) THEN j ELSE Len(s)
    IN  IF i >= hi THEN << >> ELSE SubSeq(s, i + 1, hi)

\* bytes.lstrip(b'\xFF')
RECURSIVE lstrip_ff(_)
lstrip_ff(s) == IF s # << >> /\ Head(s) = 255 THEN lstrip_ff(Tail(s)) ELSE s

\* k idle-line fill bytes
RECURSIVE Fill(_)
Fill(k) == IF k = 0 THEN << >> ELSE <<255>> \o Fill(k - 1)

(***************************************************************************)
(* CRC16 (calculate_crc, check_crc) and the frame encoder (send_command).  *)
(***************************************************************************)
crc_seed == 65535    \* 0xFFFF

\* x with bit k inverted
ToggleBit(x, k) == IF (x \div (2 ^ k)) % 2 = 1 THEN x - (2 ^ k) ELSE x + (2 ^ k)

\* x ^ 0xA001: 0xA001 has bits 15, 13 and 0 set
XorPoly(x) == ToggleBit(ToggleBit(ToggleBit(x, 0), 13), 15)

\* as crc_shift, but the polynomial is never folded in
crc_shift_nopoly(crc) == crc \div 2
\* one pass of the inner loop: crc = (crc >> 1) ^ 0xA001 if crc & 1 else crc >> 1
crc_shift(crc) == IF crc % 2 = 1 THEN XorPoly(crc \div 2) ELSE crc \div 2

RECURSIVE crc_byte(_, _)
crc_byte(crc, n) == IF n = 0 THEN crc ELSE crc_byte(crc_shift(crc), n - 1)

\* the loop `for pos in data` over data[lo..hi], started with `crc`; the range
\* is walked as two halves, one after the other, to keep the evaluation shallow
RECURSIVE crc_fold(_, _, _, _)
crc_fold(data, lo, hi, crc) ==
    IF lo > hi THEN crc
    ELSE IF lo = hi THEN crc_byte(Xor(crc, data[lo]), 8)
    ELSE LET mid == (lo + hi) \div 2
             left == crc_fold(data, lo, mid, crc)
         IN  IF left < 0 THEN left ELSE crc_fold(data, mid + 1, hi, left)

calculate_crc(data) == crc_fold(data, 1, Len(data), crc_seed)

check_crc(response) ==
    /\ Len(response) >= 3
    /\ UnpackLE16(SubSeq(response, Len(response) - 1, Len(response)))
         = calculate_crc(SubSeq(response, 1, Len(response) - 2))

\* as full_command, but the CRC is appended high byte first
full_command_bigendian(command) == command \o PackBE16(calculate_crc(command))

\* send_command: full_command = command + struct.pack('<H', calculate_crc(command))
full_command(command) == command \o PackLE16(calculate_crc(command))

\* a frame whose last CRC byte is off by one
WrongCrc(f) == [f EXCEPT ![Len(f)] = (f[Len(f)] + 1) % 256]

(***************************************************************************)
(* Python values: str as a sequence of code points, results as tagged      *)
(* records.                                                                *)
(***************************************************************************)
None == [tag |-> "None"]
Bytes(b) == [tag |-> "bytes", val |-> b]
Bool(b) == [tag |-> "bool", val |-> b]
Raised(e) == [tag |-> "raise", val |-> e]
Printed(d) == [tag |-> "printed", val |-> d]

Str_Unknown == <<85, 110, 107, 110, 111, 119, 110>>                      \* "Unknown"
Str_InvalidCRC == <<73, 110, 118, 97, 108, 105, 100, 32, 67, 82, 67>>    \* "Invalid CRC"

\* str.isspace for one ASCII character
IsSpace(c) == c \in {9, 10, 11, 12, 13, 28, 29, 30, 31, 32}

RECURSIVE py_lstrip(_)
py_lstrip(s) == IF s # << >> /\ IsSpace(Head(s)) THEN py_lstrip(Tail(s)) ELSE s

RECURSIVE py_rstrip(_)
py_rstrip(s) ==
    IF s # << >> /\ IsSpace(s[Len(s)]) THEN py_rstrip(SubSeq(s, 1, Len(s) - 1)) ELSE s

\* str.strip()
py_strip(s) == py_rstrip(py_lstrip(s))

\* bytes.decode('ascii') succeeds
IsAscii(b) == \A i \in 1..Len(b) : b[i] < 128

(***************************************************************************)
(* The transport: serial_port.write appends to tx; an answer is either     *)
(* read (wait_for_response true, then serial_port.read) or times out.      *)
(***************************************************************************)
\* as send_command, but the command is written without its CRC
send_command_nocrc(command) ==
    /\ tx' = Append(tx, command)
    /\ writes' = writes + 1
    /\ pending' = pending + 1

\* send_command(serial_port, command)
send_command(command) ==
    /\ tx' = Append(tx, full_command(command))
    /\ writes' = writes + 1
    /\ pending' = pending + 1

\* the request has been answered or its timeout has elapsed
Settled == pending' = 0

(***************************************************************************)
(* fast-modbus-scanner.py: scan_devices, request_device_model,             *)
(* send_continue_scan.                                                     *)
(***************************************************************************)
ScanCommands == {70, 96}     \* 0x46, 0x60

\* how one pass of the scan loop treats the bytes it read
scan_classify(raw) ==
    LET response == lstrip_ff(raw)
    IN  IF raw = << >> THEN "empty"
        ELSE IF Len(response) >= 10 /\ response[3] = 3 THEN "found"
        ELSE IF Len(response) < 3 THEN "IndexError"
        ELSE IF response[3] = 4 THEN "complete"
        ELSE "ignored"

\* serial_number, modbus_id = struct.unpack('>I', response[3:7])[0], response[7]
found_serial(response) == UnpackBE32(Slice(response, 3, 7))
found_modbus_id(response) == response[8]

\* model_request = struct.pack('>BBBIBHH', 0xFD, 0x46, 0x08, serial_number, 0x03, 200, 20)
model_request(serial_number) ==
    <<253, 70, 8>> \o PackBE32(serial_number) \o <<3>> \o PackBE16(200) \o PackBE16(20)

\* what request_device_model makes of the bytes it read
model_of(response) ==
    IF check_crc(response) /\ Len(response) >= 40
    THEN IF IsAscii(Slice(response, 9, 29))
         THEN [tag |-> "str", val |-> py_strip(Slice(response, 9, 29))]
         ELSE Raised("UnicodeDecodeError")
    ELSE [tag |-> "str", val |-> Str_InvalidCRC]

DeviceRecord(serial_number, modbus_id, model) ==
    [serial_number |-> serial_number, modbus_id |-> modbus_id, model |-> model]

(***************************************************************************)
(* Responses the bus may give to the scanner.                              *)
(***************************************************************************)
\* serial numbers on the bus (0x1234ABCD, 0x7E0000FF, then 0x00010203 + 0x01010101 * i);
\* the model keeps them below 2^31
SerialNo(i) ==
    CASE i = 1 -> 305441741
      [] i = 2 -> 2113929471
      [] OTHER -> 66051 + (16843009 * i)
Serials == {SerialNo(i) : i \in 1..MaxDevices}
BusIdOf(sn) == CHOOSE i \in 1..MaxDevices : SerialNo(i) = sn

FoundFrame(cmd, sn) == full_command(<<253, cmd, 3>> \o PackBE32(sn) \o <<BusIdOf(sn)>>)
CompleteFrame(cmd) == full_command(<<253, cmd, 4>>)

ScanPoolOf ==
    [cmd \in ScanCommands |->
        {FoundFrame(cmd, SerialNo(1)),
         Fill(MaxFill) \o FoundFrame(cmd, SerialNo(2)),
         CompleteFrame(cmd),
         full_command(<<253, cmd, 5>>),                      \* unknown discriminator
         SubSeq(FoundFrame(cmd, SerialNo(1)), 1, 9),           \* 'found', cut short
         WrongCrc(FoundFrame(cmd, SerialNo(1))),               \* 'found', wrong CRC
         WrongCrc(CompleteFrame(cmd)),                         \* 'complete', wrong CRC
         <<255, 255>>}]                                      \* nothing but idle fill

ModelHeader(sn) == <<253, 70, 9>> \o PackBE32(sn) \o <<3, 40>>
Zeros(n) == [i \in 1..n |-> 0]
ModelText == <<32, 87, 66, 45, 77, 82, 54, 67, 32, 32, 32, 32, 32, 32, 32, 32, 32, 32, 32, 32>>
ModelGarbled == [ModelText EXCEPT ![3] = 200]

ModelPoolOf ==
    [sn \in Serials |->
        LET good == full_command(ModelHeader(sn) \o ModelText \o Zeros(20))
        IN  {good,
             [good EXCEPT ![Len(good)] = (good[Len(good)] + 1) % 256],      \* wrong CRC
             full_command(ModelHeader(sn) \o SubSeq(ModelText, 1, 8)),      \* short
             full_command(ModelHeader(sn) \o ModelGarbled \o Zeros(20))}]   \* not ASCII

(***************************************************************************)
(* scan_devices as steps.                                                  *)
(***************************************************************************)
ScanInit ==
    /\ op = "scan" /\ pc = "start"
    /\ send_command(<<253, args.scan_command, 1>>)
    /\ pc' = "scan_wait"
    /\ UNCHANGED <<op, args, rx, mrx, out, heard, devices, result, reads, bus, crcVars>>

\* as ScanTimeout, but the scan is started again instead of ending
ScanTimeout_retry ==
    /\ op = "scan" /\ pc = "scan_wait"
    /\ writes < 2 * MaxRounds
    /\ Settled
    /\ pc' = "start"
    /\ UNCHANGED <<op, args, tx, rx, mrx, out, heard, devices, result, writes, reads, bus,
                   crcVars>>

\* wait_for_response(serial_port, 2) returns False: the loop ends, the table is printed
ScanTimeout ==
    /\ op = "scan" /\ pc = "scan_wait"
    /\ Settled
    /\ pc' = "done"
    /\ result' = Printed(devices)
    /\ UNCHANGED <<op, args, tx, rx, mrx, out, heard, devices, writes, reads, bus, crcVars>>

\* as ScanHandle, but a 'scan complete' response prints the table and the loop goes on
ScanHandle_nostop(raw) ==
    LET kind == scan_classify(raw)
    IN  /\ rx' = IF raw = << >> THEN raw ELSE lstrip_ff(raw)
        /\ heard' = Append(heard, raw)
        /\ reads' = reads + 1
        /\ Settled
        /\ pc' = CASE kind = "found" -> "model_send"
                   [] kind \in {"ignored", "complete"} -> "scan_wait"
                   [] kind = "IndexError" -> "raised"
                   [] OTHER -> "done"
        /\ result' = CASE kind \in {"complete", "empty"} -> Printed(devices)
                       [] kind = "IndexError" -> Raised("IndexError")
                       [] OTHER -> result
        /\ UNCHANGED <<op, args, tx, mrx, out, devices, writes, bus, crcVars>>

\* one pass of the loop up to the branch taken
ScanHandle(raw) ==
    LET kind == scan_classify(raw)
    IN  /\ rx' = IF raw = << >> THEN raw ELSE lstrip_ff(raw)
        /\ heard' = Append(heard, raw)
        /\ reads' = reads + 1
        /\ Settled
        /\ pc' = CASE kind = "found" -> "model_send"
                   [] kind = "ignored" -> "scan_wait"
                   [] kind = "IndexError" -> "raised"
                   [] OTHER -> "done"
        /\ result' = CASE kind \in {"complete", "empty"} -> Printed(devices)
                       [] kind = "IndexError" -> Raised("IndexError")
                       [] OTHER -> result
        /\ UNCHANGED <<op, args, tx, mrx, out, devices, writes, bus, crcVars>>

ScanRead ==
    /\ op = "scan" /\ pc = "scan_wait"
    /\ Len(heard) < MaxRounds
    /\ \E raw \in ScanPoolOf[args.scan_command] : ScanHandle(raw)

\* as ModelSend, but request_device_model returns "Unknown" without waiting
ModelSend_nowait ==
    /\ op = "scan" /\ pc = "model_send"
    /\ send_command(model_request(found_serial(rx)))
    /\ pc' = "continue_send"
    /\ devices' = Append(devices,
           [serial_number |-> found_serial(rx), modbus_id |-> found_modbus_id(rx),
            model |-> Str_Unknown])
    /\ UNCHANGED <<op, args, rx, mrx, out, heard, result, reads, bus, crcVars>>

\* request_device_model: the request is written
ModelSend ==
    /\ op = "scan" /\ pc = "model_send"
    /\ send_command(model_request(found_serial(rx)))
    /\ pc' = "model_wait"
    /\ UNCHANGED <<op, args, rx, mrx, out, heard, devices, result, reads, bus, crcVars>>

\* as ModelReturn, but the record is inserted at the front of the list
ModelReturn_front(model) ==
    IF model.tag = "raise"
    THEN /\ pc' = "raised"
         /\ result' = model
         /\ UNCHANGED devices
    ELSE /\ pc' = "continue_send"
         /\ devices' = <<[serial_number |-> found_serial(rx),
                          modbus_id |-> found_modbus_id(rx),
                          model |-> model.val]>> \o devices
         /\ UNCHANGED result

\* as ModelReturn, but appending also rewrites the model of the first record
ModelReturn_relabel(model) ==
    IF model.tag = "raise"
    THEN /\ pc' = "raised"
         /\ result' = model
         /\ UNCHANGED devices
    ELSE /\ pc' = "continue_send"
         /\ devices' = [Append(devices,
                DeviceRecord(found_serial(rx), found_modbus_id(rx), model.val))
                    EXCEPT ![1].model = model.val]
         /\ UNCHANGED result

\* request_device_model returns `model`; devices.append(...)
ModelReturn(model) ==
    IF model.tag = "raise"
    THEN /\ pc' = "raised"
         /\ result' = model
         /\ UNCHANGED devices
    ELSE /\ pc' = "continue_send"
         /\ devices' = Append(devices,
                DeviceRecord(found_serial(rx), found_modbus_id(rx), model.val))
         /\ UNCHANGED result

ModelTimeout ==
    /\ op = "scan" /\ pc = "model_wait"
    /\ Settled
    /\ ModelReturn([tag |-> "str", val |-> Str_Unknown])
    /\ UNCHANGED <<op, args, tx, rx, mrx, out, heard, writes, reads, bus, crcVars>>

ModelRead ==
    /\ op = "scan" /\ pc = "model_wait"
    /\ \E response \in ModelPoolOf[found_serial(rx)] :
          /\ mrx' = response
          /\ ModelReturn(model_of(response))
    /\ reads' = reads + 1
    /\ Settled
    /\ UNCHANGED <<op, args, tx, rx, out, heard, writes, bus, crcVars>>

\* the devices hear a scan frame: continue-scan (sub-command 2) silences the
\* device that answered last, any other frame leaves them as they are
BusHears(command) ==
    bus' = IF command[3] = 2 THEN bus \ {found_serial(rx)} ELSE bus

\* as send_continue_scan, but the frame carries sub-command 1 (scan-init) again
send_continue_scan_init ==
    /\ op = "scan" /\ pc = "continue_send"
    /\ send_command(<<253, args.scan_command, 1>>)
    /\ BusHears(<<253, args.scan_command, 1>>)
    /\ pc' = "scan_wait"
    /\ mrx' = << >>
    /\ UNCHANGED <<op, args, rx, out, heard, devices, result, reads, crcVars>>

\* send_continue_scan(serial_port, scan_command)
send_continue_scan ==
    /\ op = "scan" /\ pc = "continue_send"
    /\ send_command(<<253, args.scan_command, 2>>)
    /\ BusHears(<<253, args.scan_command, 2>>)
    /\ pc' = "scan_wait"
    /\ mrx' = << >>
    /\ UNCHANGED <<op, args, rx, out, heard, devices, result, reads, crcVars>>

ScanNext ==
    \/ ScanInit
    \/ ScanTimeout
    \/ ScanRead
    \/ ModelSend
    \/ ModelTimeout
    \/ ModelRead
    \/ send_continue_scan

Fresh ==
    /\ pc = "start" /\ tx = << >> /\ rx = << >> /\ mrx = << >> /\ out = << >>
    /\ heard = << >> /\ devices = << >> /\ result = [tag |-> "unset"]
    /\ pending = 0 /\ writes = 0 /\ reads = 0 /\ bus = {}
    /\ payload = << >> /\ frame = << >> /\ verdict = "unused"

InitScan ==
    /\ op = "scan"
    /\ args \in [scan_command : ScanCommands]
    /\ Fresh

(***************************************************************************)
(* fast-modbus-client.py: read_registers, write_registers.                 *)
(***************************************************************************)
\* request_command = struct.pack('>BBBIBHH', 0xFD, 0x46, 0x08, serial_number, command, register, count)
read_request(a) ==
    <<253, 70, 8>> \o PackBE32(a.serial_number) \o <<a.command>>
        \o PackBE16(a.register) \o PackBE16(a.count)

\* what read_registers returns for the bytes it read
read_outcome(response, count) ==
    IF ~check_crc(response) \/ Len(response) < 9 + 2 * count
    THEN None
    ELSE Bytes(Slice(response, 9, 9 + 2 * count))

\* struct.pack(f'>{register_count}H', *values)
RECURSIVE PackValues(_)
PackValues(values) ==
    IF values = << >> THEN << >> ELSE PackBE16(Head(values)) \o PackValues(Tail(values))

\* write_command of write_registers
write_request(a) ==
    <<253, 70, 8>> \o PackBE32(a.serial_number) \o <<a.command>> \o PackBE16(a.register)
        \o PackBE16(Len(a.values)) \o <<Len(a.values) * 2>> \o PackValues(a.values)

\* what write_registers returns for the bytes it read
write_outcome(response) == Bool(check_crc(response))

\* a device's answer to a read of `count` registers
ReadHeader(a) == <<253, 70, 9>> \o PackBE32(a.serial_number) \o <<a.command, 2 * a.count>>
ReadValues(count) == [i \in 1..(2 * count) |-> IF i % 2 = 1 THEN 0 ELSE i \div 2]
ReadReply(a) == full_command(ReadHeader(a) \o ReadValues(a.count))

ReadPool(a) ==
    {ReadReply(a),
     Fill(1) \o ReadReply(a),
     WrongCrc(ReadReply(a)),
     full_command(ReadHeader(a)),        \* header only
     <<253, 70>>}

\* the device echoes the request header
WriteReply(a) ==
    full_command(<<253, 70, 9>> \o PackBE32(a.serial_number) \o <<a.command>>
                    \o PackBE16(a.register) \o PackBE16(Len(a.values)))

WritePool(a) ==
    {WriteReply(a), Fill(MaxFill) \o WriteReply(a), WrongCrc(WriteReply(a)), <<253, 70>>}

ReadStart ==
    /\ op = "read" /\ pc = "start"
    /\ send_command(read_request(args))
    /\ pc' = "read_wait"
    /\ UNCHANGED <<op, args, rx, mrx, out, heard, devices, result, reads, bus, crcVars>>

\* as ReadTimeout, but the request is sent once more before giving up
ReadTimeout_retry ==
    /\ op = "read" /\ pc = "read_wait"
    /\ Settled
    /\ pc' = IF writes < 2 THEN "start" ELSE "done"
    /\ result' = None
    /\ UNCHANGED <<op, args, tx, rx, mrx, out, heard, devices, writes, reads, bus, crcVars>>

ReadTimeout ==
    /\ op = "read" /\ pc = "read_wait"
    /\ Settled
    /\ pc' = "done"
    /\ result' = None
    /\ UNCHANGED <<op, args, tx, rx, mrx, out, heard, devices, writes, reads, bus, crcVars>>

ReadRead ==
    /\ op = "read" /\ pc = "read_wait"
    /\ \E response \in ReadPool(args) :
          /\ rx' = response
          /\ result' = read_outcome(response, args.count)
    /\ reads' = reads + 1
    /\ Settled
    /\ pc' = "done"
    /\ UNCHANGED <<op, args, tx, mrx, out, heard, devices, writes, bus, crcVars>>

WriteStart ==
    /\ op = "write" /\ pc = "start"
    /\ send_command(write_request(args))
    /\ pc' = "write_wait"
    /\ UNCHANGED <<op, args, rx, mrx, out, heard, devices, result, reads, bus, crcVars>>

WriteTimeout ==
    /\ op = "write" /\ pc = "write_wait"
    /\ Settled
    /\ pc' = "done"
    /\ result' = Bool(FALSE)
    /\ UNCHANGED <<op, args, tx, rx, mrx, out, heard, devices, writes, reads, bus, crcVars>>

WriteRead ==
    /\ op = "write" /\ pc = "write_wait"
    /\ \E response \in WritePool(args) :
          /\ rx' = response
          /\ result' = write_outcome(response)
    /\ reads' = reads + 1
    /\ Settled
    /\ pc' = "done"
    /\ UNCHANGED <<op, args, tx, mrx, out, heard, devices, writes, bus, crcVars>>

ClientNext == ReadStart \/ ReadTimeout \/ ReadRead \/ WriteStart \/ WriteTimeout \/ WriteRead

ReadArgs ==
    [serial_number : {305441741}, command : {3}, register : {100}, count : {1, 2}]
WriteArgs ==
    [serial_number : {305441741}, command : {16}, register : {100},
     values : {<<1>>, <<258, 3>>}]

InitRead == op = "read" /\ args \in ReadArgs /\ Fresh
InitWrite == op = "write" /\ args \in WriteArgs /\ Fresh

(***************************************************************************)
(* fast-modbus-events.py: request_events, parse_event_response, main.      *)
(***************************************************************************)
\* request_command = struct.pack('>BBBBBBB', 0xFD, 0x46, 0x10, min_slave_id, max_data_length, slave_id, flag)
events_request(a) ==
    <<253, 70, 16, a.min_slave_id, a.max_data_length, a.slave_id, a.flag>>

\* as events_outcome, but the response is returned without the CRC check
events_outcome_nocheck(raw) == Bytes(lstrip_ff(raw))

\* what request_events returns for the bytes it read
events_outcome(raw) ==
    LET response == lstrip_ff(raw)
    IN  IF ~check_crc(response) THEN None ELSE Bytes(response)

\* what parse_event_response prints for `response`
parse_event_response(response) ==
    IF Len(response) < 7 THEN [tag |-> "NO EVENTS"]
    ELSE IF Len(response) < 12 THEN [tag |-> "error", val |-> "Response too short to be valid"]
    ELSE LET event_payload == UnpackBE16(Slice(response, 9, 11))
         IN  [tag |-> "event",
              device_id |-> response[1],
              event_count |-> response[5],
              flag |-> response[4],
              event_data_len |-> UnpackBE16(Slice(response, 5, 7)),
              frame_len |-> Len(response),
              event_type |-> UnpackBE16(Slice(response, 7, 9)),
              event_id |-> event_payload,
              payload |-> event_payload]

\* main: `if result:` parse_event_response(result), else "Failed to read events."
events_report(res) ==
    IF res.tag = "bytes" /\ res.val # << >>
    THEN parse_event_response(res.val)
    ELSE [tag |-> "Failed to read events."]

\* one event entry: type, id, payload as big-endian u16
EventEntry(type, id, value) == PackBE16(type) \o PackBE16(id) \o PackBE16(value)
EventsReply(entries, n) ==
    full_command(<<5, 70, 18, 1, n>> \o PackBE16(Len(entries)) \o entries)

EventsPool ==
    {EventsReply(EventEntry(4, 60, 513), 1),
     Fill(MaxFill) \o EventsReply(EventEntry(4, 60, 513), 1),
     EventsReply(EventEntry(4, 60, 513) \o EventEntry(2, 7, 1), 2),
     WrongCrc(EventsReply(EventEntry(4, 60, 513), 1)),
     full_command(<<253, 70, 18>>),                   \* 5 bytes: nothing to report
     full_command(<<5, 70, 18, 1, 0, 0, 0>>),         \* 9 bytes
     full_command(<<253>>),                           \* 3 bytes
     full_command(<<253, 70>>),                       \* 4 bytes
     full_command(<<253, 70, 18, 0>>),                \* 6 bytes
     WrongCrc(full_command(<<253, 70, 18>>)),         \* 5 bytes, wrong CRC
     <<253, 70>>,
     <<253>>,
     Fill(MaxFill)}                                   \* nothing but idle fill

EventsStart ==
    /\ op = "events" /\ pc = "start"
    /\ send_command(events_request(args))
    /\ pc' = "events_wait"
    /\ UNCHANGED <<op, args, rx, mrx, out, heard, devices, result, reads, bus, crcVars>>

EventsTimeout ==
    /\ op = "events" /\ pc = "events_wait"
    /\ Settled
    /\ pc' = "returned"
    /\ result' = None
    /\ UNCHANGED <<op, args, tx, rx, mrx, out, heard, devices, writes, reads, bus, crcVars>>

EventsRead ==
    /\ op = "events" /\ pc = "events_wait"
    /\ \E raw \in EventsPool :
          /\ rx' = lstrip_ff(raw)
          /\ result' = events_outcome(raw)
    /\ reads' = reads + 1
    /\ Settled
    /\ pc' = "returned"
    /\ UNCHANGED <<op, args, tx, mrx, out, heard, devices, writes, bus, crcVars>>

\* main, after request_events has returned
EventsReport ==
    /\ op = "events" /\ pc = "returned"
    /\ out' = <<events_report(result)>>
    /\ pc' = "done"
    /\ UNCHANGED <<op, args, tx, rx, mrx, heard, devices, result, pending, writes, reads,
                   bus, crcVars>>

EventsNext == EventsStart \/ EventsTimeout \/ EventsRead \/ EventsReport

EventsArgs ==
    [min_slave_id : {1}, max_data_length : {100}, slave_id : {0, 5}, flag : {0, 1}]

InitEvents == op = "events" /\ args \in EventsArgs /\ Fresh

(***************************************************************************)
(* fast-modbus-config-events.py: formulate_command, parse_response,        *)
(* print_settings, configure_events.  A configuration string is modelled   *)
(* as the sequence of its ranges, each already split at ':' and its        *)
(* numbers converted.                                                      *)
(***************************************************************************)
\* reg_type.lower() for the names the model draws
Lower(name) ==
    CASE name = "Coil" -> "coil"
      [] name = "INPUT" -> "input"
      [] OTHER -> name

\* the dict lookup of formulate_command; 0 stands for None
reg_type_byte(name) ==
    CASE Lower(name) = "coil" -> 1
      [] Lower(name) = "discrete" -> 2
      [] Lower(name) = "holding" -> 3
      [] Lower(name) = "input" -> 4
      [] OTHER -> 0

\* [priority] * count
Repeat(x, n) == [i \in 1..n |-> x]

\* as range_data, but the priority byte is appended once for the whole range
range_data_once(cfg) ==
    <<reg_type_byte(cfg.reg_type)>> \o PackBE16(cfg.address) \o <<cfg.count>>
        \o <<cfg.priority>>

\* the bytes one range adds to `data`
range_data(cfg) ==
    <<reg_type_byte(cfg.reg_type)>> \o PackBE16(cfg.address) \o <<cfg.count>>
        \o Repeat(cfg.priority, cfg.count)

RECURSIVE config_data(_)
config_data(config) ==
    IF config = << >> THEN << >>
    ELSE range_data(Head(config)) \o config_data(Tail(config))

\* as formulate_command, but a range of unknown type is built with type byte 0
formulate_command_lenient(slave_id, config) ==
    [tag |-> "list",
     val |-> <<slave_id, 70, 24, Len(config_data(config))>> \o config_data(config)]

\* formulate_command(slave_id, config): the command, or the exception it raises
formulate_command(slave_id, config) ==
    IF \E i \in 1..Len(config) : reg_type_byte(config[i].reg_type) = 0
    THEN Raised("ValueError")
    ELSE [tag |-> "list",
          val |-> <<slave_id, 70, 24, Len(config_data(config))>> \o config_data(config)]

\* parse_response(response): the mask bytes, or None
parse_response(raw) ==
    LET response == lstrip_ff(raw)
    IN  IF Len(response) < 4 THEN None
        ELSE Bytes(Slice(response, 4, 4 + response[4]))

\* as BitOf, but counting bit positions from the high end of the byte
BitOf_highfirst(mask_byte, bit_position) == (mask_byte \div (2 ^ (7 - bit_position))) % 2

\* (mask_byte >> bit_position) & 1
BitOf(mask_byte, bit_position) == (mask_byte \div (2 ^ bit_position)) % 2

\* print_settings for one range: the lines "- Register <address> (u16): <status>"
RECURSIVE settings_lines(_, _, _)
settings_lines(cfg, mask_data, i) ==
    IF i >= cfg.count THEN << >>
    ELSE LET byte_index == i \div 8
             line == IF byte_index < Len(mask_data)
                     THEN << [register |-> cfg.address + i,
                              enabled |-> BitOf(mask_data[byte_index + 1], i % 8) = 1] >>
                     ELSE << >>
         IN  line \o settings_lines(cfg, mask_data, i + 1)

print_settings(cfg, mask_data) == settings_lines(cfg, mask_data, 0)

\* configure_events: what is printed for one range after its response was parsed
config_report(cfg, mask) ==
    IF mask.tag = "bytes" /\ mask.val # << >>
    THEN [tag |-> "settings", val |-> print_settings(cfg, mask.val)]
    ELSE [tag |-> "error", val |-> "No valid response received"]

\* the device's answer: slave id, 0x46, 0x18, mask length, mask bytes, CRC
MaskReply(slave_id, mask) == full_command(<<slave_id, 70, 24, Len(mask)>> \o mask)

ConfigPool(slave_id) ==
    {MaskReply(slave_id, <<5>>),
     Fill(1) \o MaskReply(slave_id, <<255, 1>>),
     MaskReply(slave_id, << >>),
     WrongCrc(MaskReply(slave_id, <<5>>)),
     <<slave_id, 70>>,
     << >>}                      \* read(256) ran into the port's timeout

\* as CurrentRange, but always the first range of the configuration
CurrentRange_first == args.config[1]

\* the range configure_events is working on
CurrentRange == args.config[Len(out) + 1]

\* serial_port.write(command) of a list: every element has to be a byte
Writable(command) == \A i \in 1..Len(command) : command[i] \in 0..255

\* formulate_command and send_command for the next range
ConfigSend ==
    /\ op = "config" /\ pc = "start"
    /\ LET command == formulate_command(args.slave_id, <<CurrentRange>>)
       IN  IF command.tag = "raise"
           THEN /\ pc' = "raised"
                /\ result' = command
                /\ UNCHANGED <<tx, writes, pending>>
           ELSE IF ~Writable(command.val)
           THEN /\ pc' = "raised"
                /\ result' = Raised("ValueError: byte must be in range(0, 256)")
                /\ UNCHANGED <<tx, writes, pending>>
           ELSE /\ send_command(command.val)
                /\ pc' = "config_read"
                /\ UNCHANGED result
    /\ UNCHANGED <<op, args, rx, mrx, out, heard, devices, reads, bus, crcVars>>

\* time.sleep(1); response = serial_port.read(256); parse_response; print_settings
ConfigRead ==
    /\ op = "config" /\ pc = "config_read"
    /\ \E response \in ConfigPool(args.slave_id) :
          /\ rx' = response
          /\ out' = Append(out, config_report(CurrentRange, parse_response(response)))
    /\ reads' = reads + 1
    /\ Settled
    /\ pc' = IF Len(out) + 1 = Len(args.config) THEN "done" ELSE "start"
    /\ UNCHANGED <<op, args, tx, mrx, heard, devices, result, writes, bus, crcVars>>

ConfigNext == ConfigSend \/ ConfigRead

Range(t, a, c, p) == [reg_type |-> t, address |-> a, count |-> c, priority |-> p]

Configs ==
    {<<Range("discrete", 0, 8, 1)>>,
     <<Range("INPUT", 60, 2, 1), Range("coil", 0, 9, 2)>>,
     <<Range("holding", 10, 1, 0), Range("relay", 0, 1, 1)>>,
     <<Range("holding", 7, 0, 1)>>}

InitConfig ==
    /\ op = "config"
    /\ args \in [slave_id : {5}, config : Configs]
    /\ Fresh

Init == InitScan \/ InitRead \/ InitWrite \/ InitEvents \/ InitConfig
Next == ScanNext \/ ClientNext \/ EventsNext \/ ConfigNext
Spec == Init /\ [][Next]_vars

(***************************************************************************)
(* The scan against a bus of devices that arbitrate: every scan frame is   *)
(* answered by one device that has not been silenced yet, and by 'scan     *)
(* complete' or by silence once none is left.                              *)
(***************************************************************************)
InitArb ==
    /\ op = "scan"
    /\ args \in [scan_command : ScanCommands]
    /\ pc = "start" /\ tx = << >> /\ rx = << >> /\ mrx = << >> /\ out = << >>
    /\ heard = << >> /\ devices = << >> /\ result = [tag |-> "unset"]
    /\ pending = 0 /\ writes = 0 /\ reads = 0
    /\ bus \in SUBSET Serials
    /\ payload = << >> /\ frame = << >> /\ verdict = "unused"

\* one of the devices still listening wins the arbitration and answers
ArbAnswer ==
    /\ op = "scan" /\ pc = "scan_wait"
    /\ Len(heard) < MaxDevices + 2
    /\ \E sn \in bus : ScanHandle(FoundFrame(args.scan_command, sn))

\* nobody is left: the bus answers 'scan complete'
ArbComplete ==
    /\ op = "scan" /\ pc = "scan_wait"
    /\ bus = {}
    /\ ScanHandle(CompleteFrame(args.scan_command))

\* nobody is left: the bus stays silent
ArbSilent ==
    /\ bus = {}
    /\ ScanTimeout

NextArb ==
    \/ ScanInit
    \/ ArbAnswer
    \/ ArbComplete
    \/ ArbSilent
    \/ ModelSend
    \/ ModelTimeout
    \/ ModelRead
    \/ send_continue_scan

SpecArb == InitArb /\ [][NextArb]_vars

(***************************************************************************)
(* Reading the history of a scan.                                          *)
(***************************************************************************)
\* the responses of `log` the scan loop took for 'device found'
RECURSIVE FoundOf(_)
FoundOf(log) ==
    IF log = << >> THEN << >>
    ELSE IF scan_classify(Head(log)) = "found"
         THEN <<lstrip_ff(Head(log))>> \o FoundOf(Tail(log))
         ELSE FoundOf(Tail(log))

\* the frames of tx whose third byte is `sub` and that are 5 bytes long
RECURSIVE CountSub(_, _)
CountSub(frames, sub) ==
    IF frames = << >> THEN 0
    ELSE (IF Len(Head(frames)) = 5 /\ Head(frames)[3] = sub THEN 1 ELSE 0)
         + CountSub(Tail(frames), sub)

(***************************************************************************)
(* Claims about the scan.                                                  *)
(***************************************************************************)
Last(q) == q[Len(q)]

SerialsOf(recs) == [i \in 1..Len(recs) |-> recs[i].serial_number]
FoundSerials(log) == [i \in 1..Len(FoundOf(log)) |-> found_serial(FoundOf(log)[i])]
FoundBusIds(log) == [i \in 1..Len(FoundOf(log)) |-> found_modbus_id(FoundOf(log)[i])]

\* the bus answered with N 'device found' frames and then one 'scan complete'
FoundThenComplete(log) ==
    /\ log # << >>
    /\ scan_classify(Last(log)) = "complete"
    /\ \A i \in 1..(Len(log) - 1) : scan_classify(log[i]) = "found"

\* C1: when the bus answers the scan with N 'device found' frames followed by
\* one 'scan complete' frame, the scan ends with exactly N records, in the
\* order the frames arrived, and has written one continue-scan frame
\* (sub-command 2) per found device.
C1_ScanCollectsInOrder ==
    (op = "scan" /\ pc = "done" /\ FoundThenComplete(heard)) =>
        /\ Len(devices) = Len(heard) - 1
        /\ SerialsOf(devices) = FoundSerials(heard)
        /\ [i \in 1..Len(devices) |-> devices[i].modbus_id] = FoundBusIds(heard)
        /\ CountSub(tx, 2) = Len(heard) - 1
        /\ result = Printed(devices)

C1_Witness ==
    /\ op = "scan" /\ pc = "done" /\ FoundThenComplete(heard)
    /\ Len(devices) = 2
    /\ devices[1].serial_number # devices[2].serial_number
    /\ CountSub(tx, 2) = 2

\* the claim's malformed response: after stripping the fill bytes it is neither
\* 'device found' (length >= 10, byte 2 = 3) nor 'scan complete' (byte 2 = 4)
Malformed(raw) ==
    LET r == lstrip_ff(raw)
    IN  /\ ~(Len(r) >= 10 /\ r[3] = 3)
        /\ ~(Len(r) >= 3 /\ r[3] = 4)

\* C2: a scan response that is neither 'device found' nor 'scan complete'
\* (also one that is empty or shorter than 3 bytes after stripping) aborts the
\* scan at that response, which returns the records collected so far.
C2_MalformedAborts ==
    (op = "scan" /\ heard # << >> /\ Malformed(Last(heard))) =>
        (pc = "done" /\ result = Printed(devices))

\* the model lookup of the device found last has failed
LookupFailed ==
    \/ mrx = << >>
    \/ ~check_crc(mrx)
    \/ Len(mrx) < 40
    \/ ~IsAscii(Slice(mrx, 9, 29))

\* the scan is just past the model lookup of the device found last
PastLookup ==
    /\ op = "scan"
    /\ heard # << >>
    /\ scan_classify(Last(heard)) = "found"
    /\ pc \in {"continue_send", "raised"}

\* C3: whichever way the model lookup fails (no response, wrong CRC, too
\* short, not ASCII), the found device is recorded with an error marker in
\* place of the model, and the scan goes on to return its list.
C3_LookupFailureRecorded ==
    (PastLookup /\ LookupFailed) =>
        /\ pc = "continue_send"
        /\ Len(devices) = Len(FoundOf(heard))
        /\ Last(devices).serial_number = found_serial(rx)
        /\ Last(devices).model \in {Str_Unknown, Str_InvalidCRC}

\* C5: when the wait for a scan response times out, the scan is done: it
\* writes no further frame and returns the records accumulated so far, in
\* discovery order; nothing happens after done.
C5_TimeoutEndsScan ==
    [][ /\ ~(op = "scan" /\ pc = "done")
        /\ (op = "scan" /\ pc = "scan_wait" /\ reads' = reads) =>
              /\ pc' = "done"
              /\ tx' = tx
              /\ devices' = devices
              /\ result' = Printed(devices)
              /\ SerialsOf(devices') = FoundSerials(heard') ]_vars

C5_Witness ==
    /\ op = "scan" /\ pc = "done"
    /\ heard # << >> /\ scan_classify(Last(heard)) = "found"
    /\ Len(devices) = 2
    /\ result = Printed(devices)

(***************************************************************************)
(* Claims about requests and answers.                                      *)
(***************************************************************************)
\* C4: in every operation at most one request is outstanding: whenever a
\* frame is written, the answer to the frame written before it has been
\* read or its timeout has elapsed.
C4_OneOutstanding ==
    pending <= 1

C4_Witness ==
    /\ op = "scan" /\ pc = "model_wait"
    /\ writes = 4 /\ reads = 3
    /\ pending = 1

\* the devices of the bus: those still listening and those already reported
Population == bus \cup {devices[i].serial_number : i \in 1..Len(devices)}

\* scan frames written so far: scan-init and continue-scan
ScanRoundTrips == CountSub(tx, 1) + CountSub(tx, 2)

\* C6: on a bus of N devices that answer scan frames until a continue-scan
\* frame has acknowledged them, a scan reports each device at most once and
\* needs at most N + 1 scan round trips: after N + 1 no device is left to
\* answer.
C6_EachDeviceOnce ==
    op = "scan" =>
        /\ \A i, j \in 1..Len(devices) :
              devices[i].serial_number = devices[j].serial_number => i = j
        /\ ScanRoundTrips <= Cardinality(Population) + 1
        /\ (pc = "scan_wait" /\ ScanRoundTrips = Cardinality(Population) + 1) => bus = {}
        /\ (pc = "done") => Len(heard) <= Cardinality(Population) + 1

C6_Witness ==
    /\ op = "scan" /\ pc = "done"
    /\ Len(devices) = MaxDevices
    /\ ScanRoundTrips = MaxDevices + 1
    /\ bus = {}

\* C7: read_registers, write_registers and request_events never retry: a call
\* writes exactly one request and reads at most once, and when nothing
\* arrives before the timeout it returns its failure value without writing
\* again.
C7_NoRetry ==
    op \in {"read", "write", "events"} =>
        /\ writes <= 1
        /\ reads <= 1
        /\ pc \in {"returned", "done"} =>
              /\ writes = 1
              /\ reads = 0 => result = (IF op = "write" THEN Bool(FALSE) ELSE None)

C7_Witness ==
    /\ op = "read" /\ pc = "done"
    /\ writes = 1 /\ reads = 0
    /\ result = None

(***************************************************************************)
(* Idle-line fill: a valid response is handled once as sent and once with  *)
(* 0xFF bytes in front of it, by the response handling of each             *)
(* sub-protocol.                                                           *)
(***************************************************************************)
\* what one pass of the scan loop makes of a response
scan_outcome(raw) ==
    IF scan_classify(raw) = "found"
    THEN [kind |-> "found",
          serial_number |-> found_serial(lstrip_ff(raw)),
          modbus_id |-> found_modbus_id(lstrip_ff(raw))]
    ELSE [kind |-> scan_classify(raw)]

\* the response handling of sub-protocol `proto`
Handle(proto, a, response) ==
    CASE proto = "read" -> read_outcome(response, a.count)
      [] proto = "write" -> write_outcome(response)
      [] proto = "scan" -> scan_outcome(response)
      [] proto = "model" -> model_of(response)
      [] proto = "config" -> parse_response(response)
      [] proto = "events" -> events_outcome(response)

ModelReply(sn) == full_command(ModelHeader(sn) \o ModelText \o Zeros(20))

\* valid responses of each sub-protocol, with the arguments of their request
ValidReplies ==
    {<<"read", a, ReadReply(a)>> : a \in ReadArgs}
    \cup {<<"write", a, WriteReply(a)>> : a \in WriteArgs}
    \cup {<<"scan", [scan_command |-> c], FoundFrame(c, sn)>> : c \in ScanCommands, sn \in Serials}
    \cup {<<"scan", [scan_command |-> c], CompleteFrame(c)>> : c \in ScanCommands}
    \cup {<<"model", [serial_number |-> sn], ModelReply(sn)>> : sn \in Serials}
    \cup {<<"config", [slave_id |-> 5], MaskReply(5, m)>> : m \in {<<5>>, <<255, 1>>}}
    \cup {<<"events", a, EventsReply(EventEntry(4, 60, 513), 1)>> : a \in EventsArgs}

InitFill ==
    /\ \E v \in ValidReplies, k \in 0..MaxFill :
          /\ op = v[1]
          /\ args = v[2]
          /\ frame = v[3]
          /\ rx = Fill(k) \o v[3]
    /\ pc = "start" /\ tx = << >> /\ mrx = << >> /\ out = << >>
    /\ heard = << >> /\ devices = << >> /\ result = [tag |-> "unset"]
    /\ pending = 0 /\ writes = 0 /\ reads = 0 /\ bus = {}
    /\ payload = << >> /\ verdict = "unused"

\* the response as it arrived, fill bytes included
FillHandlePrefixed ==
    /\ result = [tag |-> "unset"]
    /\ result' = Handle(op, args, rx)
    /\ UNCHANGED <<op, pc, args, tx, rx, mrx, out, heard, devices, pending, writes, reads,
                   bus, crcVars>>

\* the response as the device sent it
FillHandlePlain ==
    /\ out = << >>
    /\ out' = <<Handle(op, args, frame)>>
    /\ UNCHANGED <<op, pc, args, tx, rx, mrx, heard, devices, result, pending, writes,
                   reads, bus, crcVars>>

NextFill == FillHandlePrefixed \/ FillHandlePlain

SpecFill == InitFill /\ [][NextFill]_vars

\* C10: for every valid response and every number of 0xFF bytes in front of
\* it, each sub-protocol's response handling gives the same result as for
\* the response itself.
C10_FillIgnored ==
    (result # [tag |-> "unset"] /\ out # << >>) => result = out[1]

(***************************************************************************)
(* CRC laws: a byte sequence is drawn, encoded, optionally damaged in one  *)
(* bit, and verified.                                                      *)
(***************************************************************************)
CrcBytes == {0, 1, 128, 253, 255}

RECURSIVE SeqsUpTo(_, _)
SeqsUpTo(S, n) ==
    IF n = 0 THEN { << >> }
    ELSE LET shorter == SeqsUpTo(S, n - 1)
         IN  shorter \cup { Append(s, x) : s \in shorter, x \in S }

Payloads == SeqsUpTo(CrcBytes, MaxPayloadLen)

\* the frame with bit `bit` (0 = lowest) of byte `idx` (1-based) inverted
FlipBit(f, idx, bit) ==
    [f EXCEPT ![idx] = Xor(f[idx], 2 ^ bit)]

IdleOp ==
    /\ op = "none" /\ pc = "none" /\ args = << >> /\ tx = << >> /\ rx = << >>
    /\ mrx = << >> /\ out = << >>
    /\ heard = << >> /\ devices = << >> /\ result = [tag |-> "unset"]
    /\ pending = 0 /\ writes = 0 /\ reads = 0 /\ bus = {}

InitCrc ==
    /\ IdleOp
    /\ payload \in Payloads
    /\ frame = << >>
    /\ verdict = "input"

CrcEncode ==
    /\ verdict = "input"
    /\ frame' = full_command(payload)
    /\ verdict' = "encoded"
    /\ UNCHANGED <<payload, opVars>>

CrcFlip ==
    /\ verdict = "encoded"
    /\ \E idx \in 1..Len(frame), bit \in 0..7 :
          frame' = FlipBit(frame, idx, bit)
    /\ verdict' = "damaged"
    /\ UNCHANGED <<payload, opVars>>

CrcVerify ==
    /\ verdict = "encoded"
    /\ verdict' = IF check_crc(frame) THEN "accepted" ELSE "rejected"
    /\ UNCHANGED <<payload, frame, opVars>>

CrcVerifyDamaged ==
    /\ verdict = "damaged"
    /\ verdict' = IF check_crc(frame) THEN "damage missed" ELSE "damage detected"
    /\ UNCHANGED <<payload, frame, opVars>>

NextCrc == CrcEncode \/ CrcFlip \/ CrcVerify \/ CrcVerifyDamaged

SpecCrc == InitCrc /\ [][NextCrc]_vars

\* C8 (as stated): for every byte sequence b, including the empty one,
\* check_crc(b + crc16le(b)) is true.
C8_RoundTripAll ==
    verdict \in {"accepted", "rejected"} => verdict = "accepted"

\* C8 (amended): for every non-empty byte sequence b, check_crc(b + crc16le(b))
\* is true; the encoding of the empty sequence has two bytes and is rejected.
C8_RoundTripNonEmpty ==
    verdict \in {"accepted", "rejected"} =>
        (verdict = "accepted" <=> payload # << >>)

C8_Witness ==
    /\ verdict = "accepted"
    /\ Len(payload) = MaxPayloadLen
    /\ frame = payload \o PackLE16(calculate_crc(payload))

\* C9: flipping any single bit of an encoded frame, in the payload or in the
\* CRC bytes, gives a frame check_crc rejects.
C9_SingleBitDetected ==
    verdict # "damage missed"

C9_Witness ==
    /\ verdict = "damage detected"
    /\ Len(payload) >= 1
    /\ frame[1] # payload[1]

(***************************************************************************)
(* Claims about the validation of responses.                               *)
(***************************************************************************)
\* the scan responses that led to the records of `devices`, in order
RecordedFrom == SubSeq(FoundOf(heard), 1, Len(devices))

\* C11: no operation interprets a response whose trailing little-endian
\* CRC16 differs from the CRC16 of the bytes before it: every scan response
\* that gave a device record or ended the scan as 'scan complete', every
\* event-configuration response that gave an event mask, and every response
\* a read, a write or an event poll accepted, passes check_crc.
C11_BadCrcNeverInterpreted ==
    /\ op = "scan" =>
          /\ \A i \in 1..Len(RecordedFrom) : check_crc(RecordedFrom[i])
          /\ (pc = "done" /\ heard # << >> /\ scan_classify(Last(heard)) = "complete")
                => check_crc(lstrip_ff(Last(heard)))
    /\ (op = "config" /\ pc \in {"start", "done"} /\ out # << >>
            /\ Last(out).tag = "settings")
          => check_crc(lstrip_ff(rx))
    /\ (op \in {"read", "events"} /\ result.tag = "bytes") => check_crc(rx)
    /\ (op = "write" /\ result = Bool(TRUE)) => check_crc(rx)

\* C12: read_registers returns a register block only for a response that
\* passes check_crc and holds at least 9 + 2*count bytes before its CRC; the
\* block is then the bytes [9, 9 + 2*count) of the response, none of them a
\* CRC byte; any other response makes the call fail.
C12_ReadBlockExcludesCrc ==
    (op = "read" /\ pc = "done" /\ reads = 1) =>
        IF check_crc(rx) /\ Len(rx) - 2 >= 9 + (2 * args.count)
        THEN result = Bytes(Slice(rx, 9, 9 + (2 * args.count)))
        ELSE result = None

(***************************************************************************)
(* Claims about the event poll.                                            *)
(***************************************************************************)
\* the poll has read a response and main has reported on it
PollReported == op = "events" /\ pc = "done" /\ reads = 1

\* C13 as stated: every poll response shorter than 7 bytes after its leading
\* 0xFF bytes are stripped (0 to 6 bytes) is reported as "NO EVENTS", not as
\* a failure.
C13_ShortIsNoEvents ==
    (PollReported /\ Len(rx) < 7) => out = <<[tag |-> "NO EVENTS"]>>

\* C13, amended: a stripped poll response shorter than 7 bytes is reported as
\* "NO EVENTS" if it passes check_crc (which takes at least 3 bytes), and as
\* a failed read otherwise.
C13_ShortValidIsNoEvents ==
    (PollReported /\ Len(rx) < 7) =>
        out = <<[tag |-> IF check_crc(rx) THEN "NO EVENTS" ELSE "Failed to read events."]>>

C13_Witness ==
    /\ PollReported /\ Len(rx) = 3 /\ check_crc(rx)
    /\ out = <<[tag |-> "NO EVENTS"]>>

Min(a, b) == IF a < b THEN a ELSE b

\* entry k (from 0) of a poll response: three consecutive big-endian u16
\* fields after the 7 header bytes
EntryAt(response, k) ==
    LET at == 7 + (6 * k)
    IN  [event_type |-> UnpackBE16(Slice(response, at, at + 2)),
         event_id   |-> UnpackBE16(Slice(response, at + 2, at + 4)),
         payload    |-> UnpackBE16(Slice(response, at + 4, at + 6))]

\* the entries of a poll response: event_count of them, as far as
\* event_data_len and the frame reach
EntriesOf(response) ==
    LET event_count == response[5]
        event_data_len == UnpackBE16(Slice(response, 5, 7))
        n == Min(event_count, Min(event_data_len \div 6, (Len(response) - 9) \div 6))
    IN  [k \in 1..n |-> EntryAt(response, k - 1)]

\* the events a report of parse_event_response shows
ReportedEvents(report) ==
    << [event_type |-> report.event_type,
        event_id   |-> report.event_id,
        payload    |-> report.payload] >>

\* C14: for a poll response of at least 12 bytes the parser reports one event
\* per entry of the response, event_count entries in wire order as far as
\* event_data_len reaches, each with its type, id and payload read from the
\* three consecutive big-endian u16 fields of that entry.
C14_EveryEntryDecoded ==
    (PollReported /\ result.tag = "bytes" /\ Len(rx) >= 12) =>
        /\ out[1].tag = "event"
        /\ ReportedEvents(out[1]) = EntriesOf(rx)

(***************************************************************************)
(* Claims about the event configuration.                                   *)
(***************************************************************************)
\* configure_events has just finished the pass for a range: LastRange is that
\* range, LastMask what parse_response made of the response to its frame
RangeDone == op = "config" /\ pc \in {"start", "done"} /\ out # << >>
LastRange == args.config[Len(out)]
LastMask == parse_response(rx)

\* bit (i mod 8) of mask byte floor(i / 8) is 1
MaskBit(mask, i) ==
    /\ i \div 8 < Len(mask)
    /\ (mask[(i \div 8) + 1] \div (2 ^ (i % 8))) % 2 = 1

\* the report on registers a .. a + n - 1 of a range starting at a
RegisterReport(cfg, mask, n) ==
    [tag |-> "settings",
     val |-> [k \in 1..n |-> [register |-> cfg.address + (k - 1),
                              enabled |-> MaskBit(mask, k - 1)]]]

\* C15 as stated: for every range and every returned mask, every register
\* a + i of the range (0 <= i < count) is reported, as enabled iff bit
\* (i mod 8) of mask byte floor(i / 8) is 1.
C15_EveryRegisterReported ==
    (RangeDone /\ LastMask.tag = "bytes") =>
        Last(out) = RegisterReport(LastRange, LastMask.val, LastRange.count)

\* C15, amended: a returned mask of at least one byte gives a report on the
\* registers a + i with i < count whose mask byte floor(i / 8) is among the
\* returned bytes, in address order, each enabled iff bit (i mod 8) of that
\* byte is 1; registers beyond the returned bytes are left out, and a mask of
\* no bytes is reported as no valid response.
C15_RegistersOfMaskReported ==
    (RangeDone /\ LastMask.tag = "bytes") =>
        Last(out) =
            IF LastMask.val = << >>
            THEN [tag |-> "error", val |-> "No valid response received"]
            ELSE RegisterReport(LastRange, LastMask.val,
                                Min(LastRange.count, 8 * Len(LastMask.val)))

\* discrete:0:8:1 answered with mask byte 0b00000101
C15_Witness ==
    /\ RangeDone
    /\ LastRange = Range("discrete", 0, 8, 1)
    /\ LastMask = Bytes(<<5>>)
    /\ Last(out).tag = "settings"
    /\ {Last(out).val[k].register : k \in {j \in 1..8 : Last(out).val[j].enabled}} = {0, 2}
    /\ {Last(out).val[k].register : k \in {j \in 1..8 : ~Last(out).val[j].enabled}}
          = {1, 3, 4, 5, 6, 7}

KnownTypes == {"coil", "discrete", "holding", "input"}

\* the type name of the range is none of the four, in any letter case
UnknownType(cfg) == Lower(cfg.reg_type) \notin KnownTypes

\* C16: a range whose register type name is none of coil, discrete, holding,
\* input (compared without regard to letter case) makes the build of its
\* frame fail with ValueError("Unknown register type"): configure_events ends
\* there, and neither the frame of that range nor any later frame is written.
C16_UnknownTypeFails ==
    op = "config" =>
        \A j \in 1..Len(args.config) :
            UnknownType(args.config[j]) =>
                /\ Len(tx) < j
                /\ Len(out) < j
                /\ (Len(out) = j - 1 /\ pc # "start")
                      => (pc = "raised" /\ result = Raised("ValueError"))

C16_Witness ==
    /\ op = "config" /\ pc = "raised" /\ result = Raised("ValueError")
    /\ UnknownType(args.config[2])
    /\ Len(tx) = 1 /\ Len(out) = 1

\* the frame of one range (none if the range cannot be built)
FrameOf(slave_id, cfg) ==
    LET command == formulate_command(slave_id, <<cfg>>)
    IN  IF command.tag = "list" THEN full_command(command.val) ELSE << >>

\* C17: configure_events writes one frame per range, in configuration order;
\* the response to a frame is read before the next frame is written; each
\* response is decoded against the range of its own request; when
\* configure_events returns, a configuration of k ranges has had exactly k
\* frames written and k responses read.
C17_OneFramePerRange ==
    op = "config" =>
        /\ Len(tx) <= Len(args.config)
        /\ \A i \in 1..Len(tx) : tx[i] = FrameOf(args.slave_id, args.config[i])
        /\ writes = Len(tx) /\ reads = Len(out)
        /\ pc = "config_read" => Len(tx) = Len(out) + 1
        /\ pc # "config_read" => Len(tx) = Len(out)
        /\ RangeDone => Last(out) = config_report(LastRange, LastMask)
        /\ pc = "done" => Len(tx) = Len(args.config)

C17_Witness ==
    /\ op = "config" /\ pc = "done"
    /\ Len(args.config) = 2 /\ Len(tx) = 2 /\ Len(out) = 2
    /\ tx[1] # tx[2]
    /\ Last(out).tag = "settings"

(***************************************************************************)
(* Claims about short responses and about the write acknowledgement.       *)
(***************************************************************************)
\* at most 2 bytes are left of `raw` once its leading 0xFF bytes are stripped
TooShort(raw) == Len(lstrip_ff(raw)) <= 2

\* C18: in every sub-protocol a response of at most 2 bytes (after its
\* leading 0xFF bytes are stripped) is rejected as a returned failure: a read
\* returns None, a write False, a poll None, the event configuration reports
\* no valid response, and the scan ends by returning its device list, without
\* anything being raised by indexing the response.
C18_TooShortRejected ==
    /\ (op = "scan" /\ heard # << >> /\ TooShort(Last(heard)))
          => (pc = "done" /\ result = Printed(devices))
    /\ (op = "read" /\ pc = "done" /\ reads = 1 /\ TooShort(rx)) => result = None
    /\ (op = "write" /\ pc = "done" /\ reads = 1 /\ TooShort(rx)) => result = Bool(FALSE)
    /\ (op = "events" /\ pc \in {"returned", "done"} /\ reads = 1 /\ TooShort(rx))
          => result = None
    /\ (RangeDone /\ TooShort(rx))
          => Last(out) = [tag |-> "error", val |-> "No valid response received"]

\* C19: write_registers returns True iff a response arrived and, with its
\* leading 0xFF bytes stripped, passes check_crc.
C19_WriteSuccessIffCrcValid ==
    (op = "write" /\ pc = "done") =>
        result = Bool(reads = 1 /\ check_crc(lstrip_ff(rx)))

(***************************************************************************)
(* The event-configuration frame: a single range is drawn, built by        *)
(* formulate_command and handed to send_command.                           *)
(***************************************************************************)
BuildCounts == {0, 1, 2, 8, 250, 251, 252, 253, 254, 255}

BuildRanges ==
    {Range(t, a, c, p) : t \in KnownTypes, a \in {0, 65535}, c \in BuildCounts,
                         p \in {0, 255}}

InitBuild ==
    /\ op = "config"
    /\ args \in [slave_id : {5, 247}, config : {<<cfg>> : cfg \in BuildRanges}]
    /\ Fresh

NextBuild == ConfigSend

SpecBuild == InitBuild /\ [][NextBuild]_vars

\* the type byte of a type name
TypeByte(name) ==
    CASE name = "coil" -> 1 [] name = "discrete" -> 2
      [] name = "holding" -> 3 [] name = "input" -> 4

\* bus id, 0x46, 0x18, data length, type byte, big-endian u16 start, count,
\* count copies of the priority byte
LayoutOf(slave_id, cfg) ==
    <<slave_id, 70, 24, 4 + cfg.count, TypeByte(cfg.reg_type)>>
        \o PackBE16(cfg.address) \o <<cfg.count>> \o [i \in 1..cfg.count |-> cfg.priority]

\* the range drawn, once formulate_command and send_command have run
Built == op = "config" /\ Len(args.config) = 1 /\ pc # "start"
TheRange == args.config[1]

\* C20 as stated: for every range with count in 0..255 the frame has the
\* layout above, its data-length field is 4 + count and fits in one byte, and
\* the frame is sent.
C20_FrameAlwaysSent ==
    (Built /\ TheRange.count \in 0..255) =>
        /\ formulate_command(args.slave_id, args.config).val = LayoutOf(args.slave_id, TheRange)
        /\ 4 + TheRange.count \in 0..255
        /\ pc = "config_read"
        /\ tx = <<full_command(LayoutOf(args.slave_id, TheRange))>>

\* C20, amended: the command built for a range with count in 0..255 has the
\* layout above with data length 4 + count; for count <= 251 the length fits
\* in one byte and the frame (command and CRC16) is sent; for count in
\* 252..255 the length is 256..259, the write raises ValueError and nothing
\* is sent.
C20_FrameSentIfLengthFits ==
    (Built /\ TheRange.count \in 0..255) =>
        /\ formulate_command(args.slave_id, args.config).val = LayoutOf(args.slave_id, TheRange)
        /\ IF 4 + TheRange.count <= 255
           THEN /\ pc = "config_read"
                /\ tx = <<full_command(LayoutOf(args.slave_id, TheRange))>>
           ELSE /\ pc = "raised"
                /\ result = Raised("ValueError: byte must be in range(0, 256)")
                /\ tx = << >>

C20_Witness ==
    /\ Built /\ pc = "config_read"
    /\ TheRange.count = 251
    /\ Len(tx) = 1 /\ tx[1][4] = 255 /\ Len(tx[1]) = 261

(***************************************************************************)
(* Claims about the device list and the frames of a scan.                  *)
(***************************************************************************)
IsPrefix(s, t) == Len(s) <= Len(t) /\ SubSeq(t, 1, Len(s)) = s

\* C21: during a scan the device list only grows by appending: every step
\* leaves the records already in the list where they are, with the same serial,
\* bus id and model, so the list at an earlier point of the scan is a prefix of
\* the list at every later point.
C21_ListOnlyAppended ==
    [][op = "scan" => IsPrefix(devices, devices')]_vars

\* two records have been appended, the second after a model lookup that gave
\* another model than the first
C21_Witness ==
    /\ op = "scan" /\ pc = "done"
    /\ Len(devices) = 2
    /\ devices[1].model # devices[2].model

\* the frames of a scan, as send_command writes them
ScanFrameOf ==
    [cmd \in ScanCommands |-> [sub \in 1..2 |-> full_command(<<253, cmd, sub>>)]]
ModelFrameOf == [sn \in Serials |-> full_command(model_request(sn))]
ModelFrame(sn) ==
    IF sn \in Serials THEN ModelFrameOf[sn] ELSE full_command(model_request(sn))

\* the frame the scan writes in position i, given what it has heard: scan-init,
\* then for the k-th device found its model request (2k) and a continue-scan (2k + 1)
ScanFrameAt(i) ==
    IF i = 1 THEN ScanFrameOf[args.scan_command][1]
    ELSE IF (i % 2) = 0 THEN ModelFrame(FoundSerials(heard)[i \div 2])
    ELSE ScanFrameOf[args.scan_command][2]

CompleteHeard == \E i \in 1..Len(heard) : scan_classify(heard[i]) = "complete"

ScanFramesInOrder ==
    op = "scan" =>
        /\ Len(tx) <= 1 + (2 * Len(FoundOf(heard)))
        /\ \A i \in 1..Len(tx) : tx[i] = ScanFrameAt(i)
        /\ (pc # "start") => (tx # << >> /\ CountSub(tx, 1) = 1)
        /\ (pc = "scan_wait") => (CountSub(tx, 2) = Len(devices))
        /\ CompleteHeard =>
              /\ scan_classify(Last(heard)) = "complete"
              /\ pc = "done"
              /\ Len(tx) = 1 + (2 * Len(devices))

\* C22: whatever the bus answers, the frames a scan writes are the scan-init
\* frame, once and first, then for each device found its model request followed
\* by its continue-scan frame; at the start of every pass of the loop there are
\* as many continue-scan frames as device records; and once a 'scan complete'
\* response has been read no frame is written.
C22_ScanFrameOrder ==
    /\ []ScanFramesInOrder
    /\ [][(op = "scan" /\ CompleteHeard) => UNCHANGED tx]_vars

\* two devices were found, each looked up and passed over, then the scan was
\* told it is complete
C22_Witness ==
    /\ op = "scan" /\ pc = "done"
    /\ CompleteHeard
    /\ Len(devices) = 2
    /\ Len(tx) = 5
    /\ CountSub(tx, 2) = 2

(***************************************************************************)
(* Claims about the frames written to the transport.                       *)
(***************************************************************************)
\* the frame without its last two bytes
BodyOf(f) == SubSeq(f, 1, Len(f) - 2)

\* f is `body` followed by the CRC16 of body, low byte first
CrcFramed(f) ==
    /\ Len(f) >= 3
    /\ LET crc == calculate_crc(BodyOf(f))
       IN  /\ f[Len(f) - 1] = crc % 256
           /\ f[Len(f)] = crc \div 256
    /\ check_crc(f)

\* the commands the operation in progress may hand to send_command
CommandsOf ==
    CASE op = "scan" ->
           {<<253, args.scan_command, 1>>, <<253, args.scan_command, 2>>}
               \cup (IF pc = "model_send" THEN {model_request(found_serial(rx))} ELSE {})
      [] op = "read" -> {read_request(args)}
      [] op = "write" -> {write_request(args)}
      [] op = "events" -> {events_request(args)}
      [] op = "config" ->
           LET command == formulate_command(args.slave_id, <<CurrentRange>>)
           IN  IF command.tag = "list" THEN {command.val} ELSE {}
      [] OTHER -> {}

\* scan-init and continue-scan frames are the 5-byte frames of a scan
SameScanCode(frames) ==
    \A i \in 1..Len(frames) :
        Len(frames[i]) = 5 =>
            /\ frames[i][1] = 253
            /\ frames[i][2] = args.scan_command
            /\ frames[i][2] \in {70, 96}

\* C23: every frame an operation writes to the transport is its command bytes
\* followed by the CRC16 of those bytes, low byte first, so that it passes
\* check_crc; and within one scan the scan-init frame and every continue-scan
\* frame carry the scan function code (0x46 or 0x60) the caller chose.
C23_FramesCarryCrc ==
    [][(tx' # tx) =>
          /\ tx' = Append(tx, Last(tx'))
          /\ CrcFramed(Last(tx'))
          /\ BodyOf(Last(tx')) \in CommandsOf
          /\ (op = "scan") => (args' = args /\ SameScanCode(tx'))]_vars

\* a scan with function code 0x60 has written its scan-init frame and two
\* continue-scan frames
C23_Witness ==
    /\ op = "scan" /\ args.scan_command = 96
    /\ CountSub(tx, 1) = 1
    /\ CountSub(tx, 2) = 2
    /\ \A i \in 1..Len(tx) : check_crc(tx[i])
====
